---- MODULE Spec2Model ----
(***************************************************************************)
(* Model of the memsort system call (src/memsort/memsort.c).               *)
(*                                                                         *)
(* The call is a straight line of stages: argument validation, kmalloc of  *)
(* a scratch buffer, copy_from_user, an in-place exchange sort, a log of   *)
(* the result, copy_to_user, kfree.  One action per stage; each invocation *)
(* (thread) has its own program counter, arguments and locals.             *)
(*                                                                         *)
(* The kernel primitives the call consumes (access_ok, kmalloc, kfree,     *)
(* copy_from_user, copy_to_user) are not part of memsort.c.  They are      *)
(* modelled from the interface of spec section 6: access_ok(p, n) says     *)
(* whether n bytes at p are a region the caller may write, a copy moves    *)
(* n bytes from its source argument to its destination argument and        *)
(* reports success or failure (the outcome is the environment's), kmalloc  *)
(* returns a block of the requested number of bytes or NULL.               *)
(*                                                                         *)
(* Memory is modelled in whole int32 cells.  The kernel heap is one flat   *)
(* array of cells, so an access past the end of a block lands in the       *)
(* neighbouring cells, whoever owns them.  A heap cell that was never      *)
(* written holds Uninit; reading it yields an arbitrary value.             *)
(***************************************************************************)
EXTENDS Integers, Sequences, FiniteSets, TLC

\* ------------------------------------------------------------- bounds
MaxCount == 5
MaxVal == 1
MaxConcCount == 2

\* ---------------------------------------------------------- constants
SizeofInt32 == 4
EFAULT == 14
EINVAL == 22
Uninit == -1

Threads == {1, 2}
Vals == 0..MaxVal
Counts == (0 - 1)..MaxCount

\* Cells of kernel heap: room for two adjacent blocks plus a full run of
\* MaxCount cells after the last block base.
BlockCells(bytes) == (bytes + SizeofInt32 - 1) \div SizeofInt32
MaxBase == BlockCells(MaxCount)
HeapCells == MaxBase + MaxCount

\* ----------------------------------------------------------- pointers
NULL == [space |-> "null", at |-> 0]
UPtr(r) == [space |-> "user", at |-> r]
KPtr(b) == [space |-> "kernel", at |-> b]

\* User regions: thread t passes region SrcRegion(t) as buf and
\* DstRegion(t) as sbuf (distinct, non-overlapping buffers).
SrcRegion(t) == 2 * t - 1
DstRegion(t) == 2 * t
Regions == {SrcRegion(t) : t \in Threads} \cup {DstRegion(t) : t \in Threads}

VARIABLES
    cap,      \* cap[r]: bytes at user region r the caller may legitimately write
    umem,     \* umem[r]: the whole int32 cells of user region r
    umem0,    \* umem as it was when the calls were made
    heap,     \* kernel heap cells
    live,     \* allocated blocks: records [base, bytes, owner]
    pc,       \* pc[t]: stage of invocation t
    buf, size, sbuf,   \* arguments of invocation t
    sort,     \* the local 'sort' of invocation t: a pointer
    ret,      \* the returned status
    klog,     \* printk records of invocation t, in order
    calls,    \* copy_from_user / copy_to_user calls of invocation t, in order
    allocd,   \* block bases kmalloc handed to invocation t, in order
    freed,    \* non-null pointers invocation t passed to kfree, in order
    reqbytes, \* byte count invocation t asked kmalloc for
    touched,  \* bytes from 'sort' onwards that invocation t has read or written
    foreign,  \* whether invocation t accessed a cell of another's live block
    menu      \* menu[t]: the arguments the caller of invocation t may pass

vars == <<cap, umem, umem0, heap, live, pc, buf, size, sbuf, sort, ret,
          klog, calls, allocd, freed, reqbytes, touched, foreign, menu>>

env == <<cap, umem0, menu>>
args == <<buf, size, sbuf>>

\* ------------------------------------------------- memory primitives
\* access_ok(type, addr, n): nonzero iff the n bytes at addr are a region
\* of user memory the caller may write.
access_ok(p, n) ==
    /\ p.space = "user"
    /\ n <= cap[p.at]

\* Cells of the heap that block b covers (every cell holding one of its bytes).
CellsOf(b) == b.base .. (b.base + BlockCells(b.bytes) - 1)

\* Whether cell k counted from pointer p is modelled memory.
Mapped(p, k) ==
    CASE p.space = "user" -> k \in DOMAIN umem[p.at]
      [] p.space = "kernel" -> p.at + k \in 0..(HeapCells - 1)
      [] OTHER -> FALSE

\* The value read at cell k from p, where g[k] is what an unwritten or
\* unmodelled cell happens to hold.
Load(p, k, g) ==
    IF ~Mapped(p, k) THEN g[k]
    ELSE IF p.space = "user" THEN umem[p.at][k]
    ELSE IF heap[p.at + k] = Uninit THEN g[k] ELSE heap[p.at + k]

\* The heap after reading cells 0..n-1 from kernel pointer p with g for the
\* unwritten ones (what was read stays what it was read as).
Pin(h, p, n, g) ==
    IF p.space # "kernel" THEN h
    ELSE [c \in DOMAIN h |->
            IF c - p.at \in 0..(n - 1) /\ h[c] = Uninit THEN g[c - p.at] ELSE h[c]]

\* Memory after moving `cells` cells from pointer `from` to pointer `to`.
CopyHeap(to, from, cells, g) ==
    LET h == Pin(heap, from, cells, g) IN
    IF to.space # "kernel" THEN h
    ELSE [c \in DOMAIN h |->
            IF c - to.at \in 0..(cells - 1) THEN Load(from, c - to.at, g) ELSE h[c]]

CopyUser(to, from, cells, g) ==
    IF to.space # "user" THEN umem
    ELSE [umem EXCEPT ![to.at] =
            [k \in DOMAIN umem[to.at] |->
                IF k < cells THEN Load(from, k, g) ELSE umem[to.at][k]]]

\* A copy through a null pointer cannot complete.
CopyCanSucceed(to, from) == to.space # "null" /\ from.space # "null"

\* kfree(p): releases the block at p; kfree(NULL) does nothing.
kfree(l, p) ==
    IF p.space = "kernel" THEN {b \in l : b.base # p.at} ELSE l

FreedBy(p) == IF p.space = "kernel" THEN <<p.at>> ELSE <<>>

\* Bases at which kmalloc can place a block of n bytes: its cells are those
\* of no live block.
Places(n) ==
    {b \in 0..MaxBase :
        \A l \in live : CellsOf([base |-> b, bytes |-> n]) \cap CellsOf(l) = {}}

\* Whether an access to `cells` cells at kernel pointer p reaches a cell of a
\* live block of an invocation other than t.
HitsForeign(t, p, cells) ==
    /\ p.space = "kernel"
    /\ \E l \in live :
          /\ l.owner # t
          /\ CellsOf(l) \cap (p.at .. (p.at + cells - 1)) # {}

\* ------------------------------------------------------ the sort loop
Swap(s, i, j) == [s EXCEPT ![i] = s[j], ![j] = s[i]]

RECURSIVE InnerLoop(_, _, _, _)
InnerLoop(s, i, j, n) ==
    IF j >= n THEN s
    ELSE InnerLoop(IF s[i] < s[j] THEN Swap(s, i, j) ELSE s, i, j + 1, n)

RECURSIVE OuterLoop(_, _, _)
OuterLoop(s, i, n) ==
    IF i >= n THEN s
    ELSE OuterLoop(InnerLoop(s, i, i + 1, n), i + 1, n)

SortDescending(s, n) == OuterLoop(s, 0, n)

\* ------------------------------------------------- argument validation
\* ValidateArgs with the null check of sbuf left out.
ValidateArgsNoSbufCheck(b, n, s) ==
    IF b = NULL THEN [status |-> 0 - EFAULT, msg |-> "null pointer argument"]
    ELSE IF n <= 0 THEN [status |-> 0 - EINVAL, msg |-> "negative size argument"]
    ELSE IF access_ok(b, n) THEN [status |-> 0 - EFAULT, msg |-> "not in userspace"]
    ELSE IF access_ok(s, n) THEN [status |-> 0 - EFAULT, msg |-> "not in userspace"]
    ELSE [status |-> 0, msg |-> "size of buffer"]

\* ValidateArgs with the size check written size < 0.
ValidateArgsZeroSizeOk(b, n, s) ==
    IF b = NULL THEN [status |-> 0 - EFAULT, msg |-> "null pointer argument"]
    ELSE IF s = NULL THEN [status |-> 0 - EFAULT, msg |-> "null pointer argument"]
    ELSE IF n < 0 THEN [status |-> 0 - EINVAL, msg |-> "negative size argument"]
    ELSE IF access_ok(b, n) THEN [status |-> 0 - EFAULT, msg |-> "not in userspace"]
    ELSE IF access_ok(s, n) THEN [status |-> 0 - EFAULT, msg |-> "not in userspace"]
    ELSE [status |-> 0, msg |-> "size of buffer"]

\* The checks of the entry point, in order: the status to return and the
\* warning logged, or status 0 when every check lets the call go on.
ValidateArgs(b, n, s) ==
    IF b = NULL THEN [status |-> 0 - EFAULT, msg |-> "null pointer argument"]
    ELSE IF s = NULL THEN [status |-> 0 - EFAULT, msg |-> "null pointer argument"]
    ELSE IF n <= 0 THEN [status |-> 0 - EINVAL, msg |-> "negative size argument"]
    ELSE IF access_ok(b, n) THEN [status |-> 0 - EFAULT, msg |-> "not in userspace"]
    ELSE IF access_ok(s, n) THEN [status |-> 0 - EFAULT, msg |-> "not in userspace"]
    ELSE [status |-> 0, msg |-> "size of buffer"]

\* The byte count passed to kmalloc, and the one passed to the two copies.
KmallocBytes(n) == n
CopyBytes(n) == n * SizeofInt32

\* ------------------------------------------------------------ actions
\* A caller enters the system call with arguments from its menu.
Call(t) ==
    /\ pc[t] = "idle"
    /\ \E b \in menu[t].bufs, n \in menu[t].sizes, s \in menu[t].sbufs :
          /\ buf' = [buf EXCEPT ![t] = b]
          /\ size' = [size EXCEPT ![t] = n]
          /\ sbuf' = [sbuf EXCEPT ![t] = s]
    /\ klog' = [klog EXCEPT ![t] = <<"starting">>]
    /\ pc' = [pc EXCEPT ![t] = "validate"]
    /\ UNCHANGED <<env, umem, heap, live, sort, ret, calls, allocd, freed,
                   reqbytes, touched, foreign>>

Validate(t) ==
    /\ pc[t] = "validate"
    /\ LET v == ValidateArgs(buf[t], size[t], sbuf[t]) IN
          /\ klog' = [klog EXCEPT ![t] = Append(@, v.msg)]
          /\ IF v.status # 0
                THEN /\ ret' = [ret EXCEPT ![t] = v.status]
                     /\ pc' = [pc EXCEPT ![t] = "done"]
                ELSE /\ pc' = [pc EXCEPT ![t] = "kmalloc"]
                     /\ UNCHANGED ret
    /\ UNCHANGED <<env, umem, heap, live, args, sort, calls, allocd, freed,
                   reqbytes, touched, foreign>>

\* sort = kmalloc(size, GFP_KERNEL); a NULL result is logged and the call goes on.
Kmalloc(t) ==
    /\ pc[t] = "kmalloc"
    /\ LET n == KmallocBytes(size[t]) IN
          /\ reqbytes' = [reqbytes EXCEPT ![t] = n]
          /\ \/ /\ sort' = [sort EXCEPT ![t] = NULL]
                /\ klog' = [klog EXCEPT ![t] = Append(@, "failed to allocate")]
                /\ UNCHANGED <<live, allocd>>
             \/ \E b \in Places(n) :
                  /\ sort' = [sort EXCEPT ![t] = KPtr(b)]
                  /\ live' = live \cup {[base |-> b, bytes |-> n, owner |-> t]}
                  /\ allocd' = [allocd EXCEPT ![t] = Append(@, b)]
                  /\ UNCHANGED klog
    /\ pc' = [pc EXCEPT ![t] = "copy_in"]
    /\ UNCHANGED <<env, umem, heap, args, ret, calls, freed, touched, foreign>>

\* One call of the user-memory bridge: `to` and `from` are the first and
\* second argument, n the byte count.  Memory changes only when it succeeds.
Bridge(t, fn, to, from, n, ok, g) ==
    LET cells == n \div SizeofInt32 IN
    /\ ok => CopyCanSucceed(to, from)
    /\ calls' = [calls EXCEPT ![t] =
                    Append(@, [fn |-> fn, to |-> to, from |-> from, n |-> n, ok |-> ok])]
    /\ heap' = IF ok THEN CopyHeap(to, from, cells, g) ELSE heap
    /\ umem' = IF ok THEN CopyUser(to, from, cells, g) ELSE umem

\* What the n cells at p may turn out to hold where nothing has been written
\* yet (index k matters only for a cell that is unwritten or unmodelled).
Unwritten(p, k) ==
    \/ ~Mapped(p, k)
    \/ p.space = "kernel" /\ heap[p.at + k] = Uninit

Garbage(p, n) ==
    {g \in [0..(n - 1) -> Vals] : \A k \in 0..(n - 1) : Unwritten(p, k) \/ g[k] = 0}

\* FailCopy with the kfree(sort) left out.
FailCopyLeak(t, msgs) ==
    /\ klog' = [klog EXCEPT ![t] = @ \o msgs]
    /\ UNCHANGED <<live, freed>>
    /\ ret' = [ret EXCEPT ![t] = 0 - EFAULT]
    /\ pc' = [pc EXCEPT ![t] = "done"]

\* The failure branch of a copy: log, kfree(sort), return -EFAULT.
FailCopy(t, msgs) ==
    /\ klog' = [klog EXCEPT ![t] = @ \o msgs]
    /\ live' = kfree(live, sort[t])
    /\ freed' = [freed EXCEPT ![t] = @ \o FreedBy(sort[t])]
    /\ ret' = [ret EXCEPT ![t] = 0 - EFAULT]
    /\ pc' = [pc EXCEPT ![t] = "done"]

\* CopyIn with the failure of the copy logged and then ignored.
CopyInNoAbort(t) ==
    /\ pc[t] = "copy_in"
    /\ \E ok \in BOOLEAN, g \in Garbage(sort[t], size[t]) :
          /\ Bridge(t, "copy_from_user", buf[t], sort[t], CopyBytes(size[t]), ok, g)
          /\ klog' = [klog EXCEPT ![t] =
                         IF ok THEN @ ELSE Append(@, "failed to copy from user space")]
    /\ pc' = [pc EXCEPT ![t] = "sort"]
    /\ touched' = [touched EXCEPT ![t] = CopyBytes(size[t])]
    /\ foreign' = [foreign EXCEPT ![t] = @ \/ HitsForeign(t, sort[t], size[t])]
    /\ UNCHANGED <<env, args, sort, allocd, reqbytes, live, freed, ret>>

\* if (copy_from_user(buf, sort, size*sizeof(int32_t))) { kfree; return -EFAULT }
CopyIn(t) ==
    /\ pc[t] = "copy_in"
    /\ \E ok \in BOOLEAN, g \in Garbage(sort[t], size[t]) :
          /\ Bridge(t, "copy_from_user", buf[t], sort[t], CopyBytes(size[t]), ok, g)
          /\ IF ok
                THEN /\ pc' = [pc EXCEPT ![t] = "sort"]
                     /\ touched' = [touched EXCEPT ![t] = CopyBytes(size[t])]
                     /\ foreign' = [foreign EXCEPT ![t] =
                                       @ \/ HitsForeign(t, sort[t], size[t])]
                     /\ UNCHANGED <<klog, live, freed, ret>>
                ELSE /\ FailCopy(t, <<"failed to copy from user space">>)
                     /\ UNCHANGED <<touched, foreign>>
    /\ UNCHANGED <<env, args, sort, allocd, reqbytes>>

\* The two nested loops over sort[0..size-1].
Sort(t) ==
    /\ pc[t] = "sort"
    /\ \E g \in Garbage(sort[t], size[t]) :
          LET p == sort[t]
              s0 == [k \in 0..(size[t] - 1) |-> Load(p, k, g)]
              s1 == SortDescending(s0, size[t])
          IN heap' = [c \in DOMAIN heap |->
                        IF c - p.at \in 0..(size[t] - 1) THEN s1[c - p.at] ELSE heap[c]]
    /\ touched' = [touched EXCEPT ![t] = size[t] * SizeofInt32]
    /\ foreign' = [foreign EXCEPT ![t] = @ \/ HitsForeign(t, sort[t], size[t])]
    /\ pc' = [pc EXCEPT ![t] = "copy_out"]
    /\ UNCHANGED <<env, umem, live, args, sort, ret, klog, calls, allocd, freed,
                   reqbytes>>

\* Log of sort[0..size-1]; copy_to_user(sbuf, sort, size*sizeof(int32_t));
\* kfree(sort) on both branches; return -EFAULT or 0.
CopyOut(t) ==
    /\ pc[t] = "copy_out"
    /\ \E ok \in BOOLEAN, g \in Garbage(sort[t], size[t]) :
          /\ Bridge(t, "copy_to_user", sbuf[t], sort[t], CopyBytes(size[t]), ok, g)
          /\ IF ok
                THEN /\ klog' = [klog EXCEPT ![t] =
                                    @ \o <<"sorted numbers", "successfully completed">>]
                     /\ live' = kfree(live, sort[t])
                     /\ freed' = [freed EXCEPT ![t] = @ \o FreedBy(sort[t])]
                     /\ ret' = [ret EXCEPT ![t] = 0]
                     /\ pc' = [pc EXCEPT ![t] = "done"]
                ELSE FailCopy(t, <<"sorted numbers", "failed to copy to user space">>)
    /\ foreign' = [foreign EXCEPT ![t] = @ \/ HitsForeign(t, sort[t], size[t])]
    /\ UNCHANGED <<env, args, sort, allocd, reqbytes, touched>>

\* ------------------------------------------------------ specifications
CapChoices == {0, SizeofInt32, SizeofInt32 * MaxCount}

CellsIn(bytes) == 0..((bytes \div SizeofInt32) - 1)

\* What the regions of an active caller may hold: any source contents, a
\* destination filled with one value.
Contents(r, bytes) ==
    IF r \in {SrcRegion(t) : t \in Threads}
    THEN [CellsIn(bytes) -> Vals]
    ELSE {[k \in CellsIn(bytes) |-> v] : v \in Vals}

NoMenu == [bufs |-> {}, sizes |-> {}, sbufs |-> {}]

FullMenu(t) ==
    [bufs |-> {NULL, UPtr(SrcRegion(t))},
     sizes |-> Counts,
     sbufs |-> {NULL, UPtr(DstRegion(t))}]

InitLocals(active) ==
    /\ heap = [c \in 0..(HeapCells - 1) |-> Uninit]
    /\ live = {}
    /\ pc = [t \in Threads |-> IF t \in active THEN "idle" ELSE "off"]
    /\ buf = [t \in Threads |-> NULL]
    /\ size = [t \in Threads |-> 0]
    /\ sbuf = [t \in Threads |-> NULL]
    /\ sort = [t \in Threads |-> NULL]
    /\ ret = [t \in Threads |-> 0]
    /\ klog = [t \in Threads |-> <<>>]
    /\ calls = [t \in Threads |-> <<>>]
    /\ allocd = [t \in Threads |-> <<>>]
    /\ freed = [t \in Threads |-> <<>>]
    /\ reqbytes = [t \in Threads |-> 0]
    /\ touched = [t \in Threads |-> 0]
    /\ foreign = [t \in Threads |-> FALSE]

\* User memory in which the two regions of invocation t hold u1 and u2.
WithRegions(m, t, u1, u2) ==
    [m EXCEPT ![SrcRegion(t)] = u1, ![DstRegion(t)] = u2]

NoMemory == [r \in Regions |-> <<>>]
NoCap == [r \in Regions |-> 0]

\* One invocation, any arguments, any two user regions.
Init ==
    /\ \E c1 \in CapChoices, c2 \in CapChoices :
          /\ cap = [NoCap EXCEPT ![SrcRegion(1)] = c1, ![DstRegion(1)] = c2]
          /\ \E u1 \in Contents(SrcRegion(1), c1), u2 \in Contents(DstRegion(1), c2) :
                umem = WithRegions(NoMemory, 1, u1, u2)
    /\ umem0 = umem
    /\ menu = [t \in Threads |-> IF t = 1 THEN FullMenu(t) ELSE NoMenu]
    /\ InitLocals({1})

Next == \E t \in Threads :
    \/ Call(t)
    \/ Validate(t)
    \/ Kmalloc(t)
    \/ CopyIn(t)
    \/ Sort(t)
    \/ CopyOut(t)

Spec == Init /\ [][Next]_vars

\* Two invocations at once, each with its own pair of user regions and a
\* count of at most MaxConcCount.
ConcCaps == {0, SizeofInt32}

ConcMenu(t) ==
    [bufs |-> {UPtr(SrcRegion(t))},
     sizes |-> 0..MaxConcCount,
     sbufs |-> {NULL, UPtr(DstRegion(t))}]

InitConc ==
    /\ cap \in [Regions -> ConcCaps]
    /\ umem = [r \in Regions |-> [k \in CellsIn(cap[r]) |-> 0]]
    /\ umem0 = umem
    /\ menu = [t \in Threads |-> ConcMenu(t)]
    /\ InitLocals(Threads)

SpecConc == InitConc /\ [][Next]_vars

\* -------------------------------------------------------------- claims
Started(t) == pc[t] \notin {"off", "idle"}
Done(t) == pc[t] = "done"
Owned(t) == {l \in live : l.owner = t}

\* The region the specification requires of a pointer: count int32 elements
\* the caller may write.
ValidRegion(p, n) == p.space = "user" /\ n * SizeofInt32 <= cap[p.at]
ValidRequest(t) ==
    /\ buf[t] # NULL /\ sbuf[t] # NULL /\ size[t] >= 1
    /\ ValidRegion(buf[t], size[t]) /\ ValidRegion(sbuf[t], size[t])

AllocFailed(t) == \E i \in 1..Len(klog[t]) : klog[t][i] = "failed to allocate"
CopyFailed(t) == \E i \in 1..Len(calls[t]) : ~calls[t][i].ok
CopyInFailed(t) ==
    /\ Len(calls[t]) >= 1
    /\ calls[t][1].fn = "copy_from_user"
    /\ ~calls[t][1].ok
Logged(t, msg) == \E i \in 1..Len(klog[t]) : klog[t][i] = msg

Occurrences(f, n, v) == Cardinality({k \in 0..(n - 1) : f[k] = v})
SameMultiset(f, g, n) == \A v \in Vals : Occurrences(f, n, v) = Occurrences(g, n, v)
NonIncreasing(f, n) == \A k \in 0..(n - 2) : f[k] >= f[k + 1]

\* C1: a call with non-null pointers to valid writable regions, count >= 1
\* and no allocator or copy fault returns 0, and the destination then holds
\* the source's count elements, same multiset, in non-increasing order.
C1_ValidCallSortsDescending ==
    \A t \in Threads :
        (Done(t) /\ ValidRequest(t) /\ ~AllocFailed(t) /\ ~CopyFailed(t)) =>
            /\ ret[t] = 0
            /\ SameMultiset(umem[sbuf[t].at], umem0[buf[t].at], size[t])
            /\ NonIncreasing(umem[sbuf[t].at], size[t])

\* C2: the scratch buffer kmalloc hands out is freed exactly once, and it is
\* that buffer which is freed: at every point the pointers freed are a prefix
\* of the (at most one) pointers allocated, the blocks still owned are the
\* ones not yet freed, and at return nothing allocated is left unfreed.
C2_AllocFreeMatched ==
    \A t \in Threads :
        /\ Len(allocd[t]) <= 1
        /\ Len(freed[t]) <= Len(allocd[t])
        /\ \A i \in 1..Len(freed[t]) : freed[t][i] = allocd[t][i]
        /\ {l.base : l \in Owned(t)} =
              {allocd[t][i] : i \in (Len(freed[t]) + 1)..Len(allocd[t])}
        /\ Done(t) => (freed[t] = allocd[t] /\ Owned(t) = {})

C2_Witness ==
    \E t \in Threads :
        Done(t) /\ Len(allocd[t]) = 1 /\ freed[t] = allocd[t] /\ CopyInFailed(t)

\* C3: with non-null pointers and count >= 1, a call whose source or
\* destination is not a valid writable region of count elements returns
\* -EFAULT from the address check before any allocation or copy, and a call
\* whose two regions are valid is not rejected by the address check.
C3_InvalidRegionRejected ==
    \A t \in Threads :
        (Started(t) /\ buf[t] # NULL /\ sbuf[t] # NULL /\ size[t] >= 1) =>
            IF ValidRequest(t)
            THEN ~Logged(t, "not in userspace")
            ELSE /\ pc[t] \in {"validate", "done"}
                 /\ allocd[t] = <<>> /\ reqbytes[t] = 0 /\ calls[t] = <<>>
                 /\ Done(t) => (ret[t] = 0 - EFAULT /\ Logged(t, "not in userspace"))

\* C4: a call whose source or destination pointer is null returns -EFAULT,
\* never calls the allocator, and neither reads nor writes user memory.
C4_NullPointerRejected ==
    \A t \in Threads :
        (Started(t) /\ (buf[t] = NULL \/ sbuf[t] = NULL)) =>
            /\ pc[t] \in {"validate", "done"}
            /\ Done(t) => ret[t] = 0 - EFAULT
            /\ allocd[t] = <<>> /\ reqbytes[t] = 0
            /\ calls[t] = <<>>
            /\ umem = umem0

C4_Witness ==
    \E t \in Threads :
        /\ Done(t) /\ buf[t] = NULL /\ sbuf[t] # NULL /\ size[t] = 4
        /\ ret[t] = 0 - EFAULT

\* C5: a call with non-null pointers and count <= 0 returns -EINVAL, never
\* calls the allocator, and moves nothing to or from user memory.
C5_NonPositiveSizeRejected ==
    \A t \in Threads :
        (Started(t) /\ buf[t] # NULL /\ sbuf[t] # NULL /\ size[t] <= 0) =>
            /\ pc[t] \in {"validate", "done"}
            /\ Done(t) => ret[t] = 0 - EINVAL
            /\ allocd[t] = <<>> /\ reqbytes[t] = 0
            /\ calls[t] = <<>>
            /\ umem = umem0

C5_Witness ==
    \E t \in Threads :
        /\ Done(t) /\ buf[t] # NULL /\ sbuf[t] # NULL /\ size[t] = 0
        /\ ret[t] = 0 - EINVAL

\* C6: every failure ends the call with a negative error code and the call
\* returns 0 only when no stage failed; when kmalloc fails the call makes no
\* copy through the null scratch pointer, does not sort and does not return 0.
C6_EveryFailureAborts ==
    \A t \in Threads :
        /\ Done(t) => ret[t] <= 0
        /\ (Done(t) /\ ret[t] = 0) => (~AllocFailed(t) /\ ~CopyFailed(t))
        /\ AllocFailed(t) =>
              /\ calls[t] = <<>>
              /\ pc[t] \notin {"sort", "copy_out"}
              /\ touched[t] = 0

\* C7: of two invocations running at once on distinct user buffers, neither
\* reads or writes a cell of the other's scratch buffer, and the two never
\* hold the same scratch buffer.
C7_ScratchIsolated ==
    \A t \in Threads :
        /\ ~foreign[t]
        /\ \A u \in Threads \ {t} :
              (Owned(t) # {} /\ Owned(u) # {}) => sort[t] # sort[u]

\* C8: the copy-in reads the caller's source buffer and writes the scratch
\* buffer, after a successful copy-in the scratch elements equal the source
\* elements, and the source buffer is never modified.
C8_CopyInFillsScratch ==
    \A t \in Threads :
        /\ \A i \in 1..Len(calls[t]) :
              calls[t][i].fn = "copy_from_user" =>
                  (calls[t][i].from = buf[t] /\ calls[t][i].to = sort[t])
        /\ pc[t] = "sort" =>
              \A k \in 0..(size[t] - 1) :
                  k \in DOMAIN umem0[buf[t].at] =>
                      heap[sort[t].at + k] = umem0[buf[t].at][k]
        /\ buf[t].space = "user" => umem[buf[t].at] = umem0[buf[t].at]

\* C9: kmalloc is asked for 4 * count bytes, and every byte of scratch the
\* call reads or writes lies inside the block it was given.
C9_ScratchAllocatedInFull ==
    \A t \in Threads :
        /\ pc[t] \in {"copy_in", "sort", "copy_out", "done"} /\ reqbytes[t] # 0 =>
              reqbytes[t] = size[t] * SizeofInt32
        /\ touched[t] <= reqbytes[t]

\* C10: when the copy-in fails the call has returned -EFAULT with the
\* scratch buffer released, without sorting, without a copy-out, and with
\* the destination buffer as it was.
C10_CopyInFailureAborts ==
    \A t \in Threads :
        CopyInFailed(t) =>
            /\ Done(t)
            /\ ret[t] = 0 - EFAULT
            /\ freed[t] = allocd[t] /\ Owned(t) = {}
            /\ Len(calls[t]) = 1
            /\ ~Logged(t, "sorted numbers")
            /\ umem[DstRegion(t)] = umem0[DstRegion(t)]

C10_Witness ==
    \E t \in Threads :
        /\ CopyInFailed(t) /\ Done(t) /\ Len(allocd[t]) = 1
        /\ cap[DstRegion(t)] = SizeofInt32

====
